---- MODULE Spec2Model ----
(***************************************************************************)
(* Telegram Privacy Auditor (pybot.py): the per-chat quiz sessions, the    *)
(* handlers registered on the bot, and the worker threads that run them.   *)
(*                                                                         *)
(* Strings of the program are written in Latin letters:                    *)
(*   "Vse" = "Все", "MoiKontakty" = "Мои контакты", "Nikto" = "Никто",     *)
(*   "Otmena" = "❌ Отмена".                                               *)
(*                                                                         *)
(* bot = telebot.TeleBot(TOKEN, parse_mode='HTML') is built with the       *)
(* library defaults threaded=True, num_threads=2: every handler call is    *)
(* put on a pool of two worker threads, with no ordering per chat.  A      *)
(* handler runs without interruption between two blocking calls            *)
(* (bot.send_message, bot.answer_callback_query, time.sleep); at a         *)
(* blocking call the other worker may run.  A send that fails raises       *)
(* ApiTelegramException: the handler ends there and polling goes on        *)
(* (none_stop=True).  An IndexError raised by a handler is re-raised in    *)
(* the polling thread and ends bot.polling.                                *)
(***************************************************************************)
EXTENDS Integers, Sequences, FiniteSets, TLC

Chats == {1, 2}

NumThreads == 2

Threads == 1..NumThreads

MaxEvents == 2

MaxFail == 1

\* ------------------------------------------------------------------ Config

QUESTIONS == <<"phone", "last_seen", "profile_photo", "groups", "forwarding">>

N == Len(QUESTIONS)

Answers == {"Vse", "MoiKontakty", "Nikto"}

POINTS == [a \in Answers |-> CASE a = "Vse" -> 0 [] a = "MoiKontakty" -> 1 [] a = "Nikto" -> 2]

LEVELS == [s \in 0..10 |->
    CASE s = 10 -> "IDEALNO"
      [] s = 9 -> "OTLICHNO"
      [] s = 8 -> "HOROSHO"
      [] s = 7 -> "NORMALNO"
      [] s = 6 -> "UDOVLETVORITELNO"
      [] s = 5 -> "TREVOGA"
      [] s = 4 -> "OPASNO"
      [] s = 3 -> "KRITICHESKI"
      [] s = 2 -> "KATASTROFA"
      [] s = 1 -> "APOKALIPSIS"
      [] s = 0 -> "YADERNYI_UROVEN"]

\* Mutant: a score outside the table takes the nearest entry.
LevelOfNearest(score) ==
    IF score \in DOMAIN LEVELS THEN LEVELS[score]
    ELSE IF score < 0 THEN LEVELS[0] ELSE LEVELS[10]

\* Config.LEVELS.get(score, Config.LEVELS[0])
LevelOf(score) == IF score \in DOMAIN LEVELS THEN LEVELS[score] ELSE LEVELS[0]

\* Config.QUESTIONS[i] for a Python index i: defined for 0 <= i < N only
\* (indices are never negative here); outside it the lookup raises IndexError.
InCatalog(i) == i \in 0..(N - 1)

Question(i) == QUESTIONS[i + 1]

\* ------------------------------------------------------------- UserSession

\* UserSession.__init__: no answers, question 0, score 0.
UserSession == [answers |-> <<>>, current_question |-> 0, score |-> 0]

\* Mutant: the new record takes the place of the recorded ones.
add_answer_replaces(s, question_id, answer, points) ==
    [s EXCEPT !.answers = <<[question_id |-> question_id,
                             answer |-> answer,
                             points |-> points]>>,
              !.score = @ + points]

add_answer(s, question_id, answer, points) ==
    [s EXCEPT !.answers = Append(@, [question_id |-> question_id,
                                     answer |-> answer,
                                     points |-> points]),
              !.score = @ + points]

is_completed(s) == s.current_question >= N

RECURSIVE SumPoints(_)
SumPoints(answers) ==
    IF answers = <<>> THEN 0
    ELSE answers[1].points + SumPoints(Tail(answers))

\* ------------------------------------------------------------ final report

\* The loops of send_final_report over session.answers.
RECURSIVE CountAnswer(_, _)
CountAnswer(answers, a) ==
    IF answers = <<>> THEN 0
    ELSE (IF answers[1].answer = a THEN 1 ELSE 0) + CountAnswer(Tail(answers), a)

\* weak_points: for i, ans in enumerate(answers): question = QUESTIONS[i];
\* the pair (question, ans) is kept when ans["points"] < 2.  i is the Python index.
RECURSIVE WeakPoints(_, _)
WeakPoints(answers, i) ==
    IF i >= Len(answers) THEN <<>>
    ELSE (IF answers[i + 1].points < 2
          THEN <<[question |-> Question(i), ans |-> answers[i + 1]]>>
          ELSE <<>>) \o WeakPoints(answers, i + 1)

\* QUESTIONS[i] is read for every i < len(answers): IndexError beyond the catalog.
ReportRaises(s) == Len(s.answers) > N

BuildReport(s) ==
    [score |-> s.score,
     level |-> LevelOf(s.score),
     answers_count |-> [a \in Answers |-> CountAnswer(s.answers, a)],
     weak_points |-> WeakPoints(s.answers, 0)]

NoReport == [score |-> 0, level |-> "", answers_count |-> [a \in Answers |-> 0],
             weak_points |-> <<>>]

\* ------------------------------------------------------ aggregate statistics

\* Floats are kept as reduced fractions num/den.
RECURSIVE GCD(_, _)
GCD(a, b) == IF b = 0 THEN a ELSE GCD(b, a % b)

Frac(num, den) ==
    LET g == GCD(num, den) IN
    IF num = 0 THEN [num |-> 0, den |-> 1] ELSE [num |-> num \div g, den |-> den \div g]

RECURSIVE SumScores(_, _)
SumScores(scoreOf, cs) ==
    IF cs = {} THEN 0
    ELSE LET c == CHOOSE x \in cs : TRUE IN scoreOf[c] + SumScores(scoreOf, cs \ {c})

\* calculate_average_score over the scores of the stored sessions
\* (scoreOf: chat -> score, for the chats in the store).
calculate_average_score(scoreOf) ==
    IF DOMAIN scoreOf = {} THEN Frac(0, 1)
    ELSE Frac(SumScores(scoreOf, DOMAIN scoreOf), Cardinality(DOMAIN scoreOf))

\* Mutant: sessions with the same score count as lower.
calculate_percentile_inclusive(scoreOf, score) ==
    IF DOMAIN scoreOf = {} THEN Frac(100, 1)
    ELSE Frac(Cardinality({c \in DOMAIN scoreOf : scoreOf[c] <= score}) * 100,
              Cardinality(DOMAIN scoreOf))

calculate_percentile(scoreOf, score) ==
    IF DOMAIN scoreOf = {} THEN Frac(100, 1)
    ELSE Frac(Cardinality({c \in DOMAIN scoreOf : scoreOf[c] < score}) * 100,
              Cardinality(DOMAIN scoreOf))

\* The statistics text of send_final_report.  Every session of a run within one
\* calendar day has start_time.date() == today, so the first figure counts them all.
BuildStats(scoreOf, score) ==
    [today |-> Cardinality(DOMAIN scoreOf),
     average |-> calculate_average_score(scoreOf),
     percentile |-> calculate_percentile(scoreOf, score)]

NoStats == [today |-> 0, average |-> Frac(0, 1), percentile |-> Frac(0, 1)]

\* -------------------------------------------------------------------- state

\* Python objects: a UserSession lives at an object id; the store and the
\* local variable `session` of a running handler hold references to it.
Objs == 1..(Cardinality(Chats) + NumThreads)

\* sessions.get(chat_id) is None / chat_id not in sessions
NoObj == 0

VARIABLES
    sessions,   \* the dict `sessions`: chat id -> object id, NoObj when absent
    heap,       \* object id -> the UserSession's fields
    thr,        \* worker thread -> the handler call it runs and where it stands
    out,        \* the message this step delivered, NoMsg when it delivered none
    events,     \* inbound events taken by the workers so far
    fails,      \* outbound calls that have failed so far
    running     \* FALSE once an exception has ended bot.polling

vars == <<sessions, heap, thr, out, events, fails, running>>

Msg(c, kind, q, answer) == [chat |-> c, kind |-> kind, q |-> q, answer |-> answer]

NoMsg == Msg(0, "none", 0, "")

NoSnapshot == [present |-> FALSE, s |-> UserSession]

\* The chat's entry of the store as a value: absent, or the fields of its session.
Entry(st, h, c) ==
    IF st[c] = NoObj THEN NoSnapshot ELSE [present |-> TRUE, s |-> h[st[c]]]

IdleThread ==
    [pc |-> "idle", chat |-> 0, session |-> NoObj, question |-> 0, answer |-> "",
     report |-> NoReport, stats |-> NoStats, pre |-> NoSnapshot]

Stored(st) == {c \in Chats : st[c] # NoObj}

ScoreOf(st, h) == [c \in Stored(st) |-> h[st[c]].score]

Referenced(st, th) == {st[c] : c \in Chats} \cup {th[t].session : t \in Threads}

\* An object no reference reaches is freed; its slot reads as a new UserSession.
Collect(h, st, th) ==
    [o \in Objs |-> IF o \in Referenced(st, th) THEN h[o] ELSE UserSession]

\* UserSession(chat_id): the new object takes the lowest free id.
NewObj(st, th) == CHOOSE o \in Objs :
    /\ o \notin Referenced(st, th)
    /\ \A p \in Objs : p \notin Referenced(st, th) => o <= p

\* ------------------------------------------------------------ store writes

\* Mutant: the store is rebuilt with the new session alone.
StartSessionAlone(st, c, o) == [b \in Chats |-> IF b = c THEN o ELSE NoObj]

\* sessions[chat_id] = UserSession(chat_id)
StartSession(st, c, o) == [st EXCEPT ![c] = o]

\* Mutant: the pop is left out.
PopSessionForgotten(st, c) == st

\* sessions.pop(chat_id, None)
PopSession(st, c) == [st EXCEPT ![c] = NoObj]

\* session.current_question += 1
NextQuestion(s) == [s EXCEPT !.current_question = @ + 1]

\* The new store, heap and threads of a step; unreachable objects are freed.
Update(st, h, th) ==
    /\ sessions' = st
    /\ thr' = th
    /\ heap' = Collect(h, st, th)

Finish(t) == [thr EXCEPT ![t] = IdleThread]

\* ------------------------------------------------------------ initial states

\* Two answer sequences (all "Никто"; a mix of the three answers): a session that
\* has taken the first k answers of one of them, one event at a time with every
\* send delivered, is a state the bot reaches.
Patterns ==
    {<<"Nikto", "Nikto", "Nikto", "Nikto", "Nikto">>,
     <<"Vse", "MoiKontakty", "Nikto", "Vse", "MoiKontakty">>}

RECURSIVE Played(_, _)
Played(p, k) ==
    IF k = 0 THEN UserSession
    ELSE LET s == Played(p, k - 1) IN
         NextQuestion(add_answer(s, Question(s.current_question), p[k], POINTS[p[k]]))

\* Sessions at the first question and one or two answers before the end.
StartAt == {0, N - 2, N - 1}

InFlight == {Played(p, k) : p \in Patterns, k \in StartAt}

\* The store right after the module is loaded (empty), or after starts and
\* answers handled one at a time: every chat has no session or one in flight.
Init ==
    /\ \E present \in SUBSET Chats :
       \E ss \in [present -> InFlight] :
          LET obj == [c \in Chats |->
                        IF c \in present
                        THEN Cardinality({b \in present : b <= c})
                        ELSE NoObj]
          IN /\ sessions = obj
             /\ heap = [o \in Objs |->
                          IF \E c \in present : obj[c] = o
                          THEN ss[CHOOSE c \in present : obj[c] = o]
                          ELSE UserSession]
    /\ thr = [t \in Threads |-> IdleThread]
    /\ out = NoMsg
    /\ events = 0
    /\ fails = 0
    /\ running = TRUE

\* ------------------------------------------------------------- the workers

\* A free worker takes the next update of the stream (the workers of the pool
\* are interchangeable: the lowest free one takes it).
Takes(t) ==
    /\ running
    /\ thr[t].pc = "idle"
    /\ \A u \in Threads : u < t => thr[u].pc # "idle"
    /\ events < MaxEvents
    /\ events' = events + 1

\* bot.send_message / bot.answer_callback_query: delivered (ok) or raising
\* ApiTelegramException.
Outcomes == IF fails < MaxFail THEN BOOLEAN ELSE {TRUE}

Deliver(m, ok) ==
    /\ fails' = IF ok THEN fails ELSE fails + 1
    /\ out' = IF ok THEN m ELSE NoMsg

Silent ==
    /\ out' = NoMsg
    /\ UNCHANGED fails

\* ----------------------------------------------------------------- handlers

\* @bot.message_handler(commands=['start', 'help'])
\* The welcome message is the handler's last call.
handle_start(t, c) ==
    /\ Takes(t)
    /\ LET o == NewObj(sessions, thr) IN
       Update(StartSession(sessions, c, o), [heap EXCEPT ![o] = UserSession], thr)
    /\ \E ok \in Outcomes : Deliver(Msg(c, "welcome", 0, ""), ok)
    /\ UNCHANGED running

\* ask_question(chat_id): nothing without a session or on a completed one,
\* else the prompt of the stored session's current question.
ask_question(c, st, h) ==
    IF st[c] = NoObj \/ is_completed(h[st[c]])
    THEN Silent
    ELSE \E ok \in Outcomes :
            Deliver(Msg(c, "question", h[st[c]].current_question, ""), ok)

\* Mutant: a begin event for a chat without a session starts one.
start_check_callback_starts(t, c) ==
    IF sessions[c] = NoObj
    THEN handle_start(t, c)
    ELSE /\ Takes(t)
         /\ thr' = [thr EXCEPT ![t] = [IdleThread EXCEPT !.pc = "callback", !.chat = c]]
         /\ Silent
         /\ UNCHANGED <<sessions, heap, running>>

\* @bot.callback_query_handler(call.data == "start_check"), up to the call of
\* bot.answer_callback_query.
start_check_callback(t, c) ==
    /\ Takes(t)
    /\ IF sessions[c] = NoObj
       THEN /\ \E ok \in Outcomes : Deliver(Msg(c, "restart_begin", 0, ""), ok)
            /\ UNCHANGED thr
       ELSE /\ thr' = [thr EXCEPT ![t] = [IdleThread EXCEPT !.pc = "callback", !.chat = c]]
            /\ Silent
    /\ UNCHANGED <<sessions, heap, running>>

\* bot.answer_callback_query returns (or raises), then ask_question(chat_id).
callback_answered(t) ==
    /\ running
    /\ thr[t].pc = "callback"
    /\ \/ /\ fails < MaxFail
          /\ fails' = fails + 1
          /\ out' = NoMsg
       \/ ask_question(thr[t].chat, sessions, heap)
    /\ Update(sessions, heap, Finish(t))
    /\ UNCHANGED <<events, running>>

\* @bot.message_handler(text in ["Все", "Мои контакты", "Никто", "❌ Отмена"]),
\* up to its first blocking call.
handle_answer(t, c, text) ==
    /\ Takes(t)
    /\ LET o == sessions[c] IN
       IF o = NoObj
       THEN /\ \E ok \in Outcomes : Deliver(Msg(c, "restart_answer", 0, ""), ok)
            /\ UNCHANGED <<sessions, heap, thr, running>>
       ELSE IF text = "Otmena"
       THEN /\ thr' = [thr EXCEPT ![t] = [IdleThread EXCEPT
                          !.pc = "cancel", !.chat = c, !.answer = text,
                          !.pre = Entry(sessions, heap, c)]]
            /\ Silent
            /\ UNCHANGED <<sessions, heap, running>>
       ELSE IF ~InCatalog(heap[o].current_question)
       THEN \* Config.QUESTIONS[session.current_question] raises IndexError
            /\ running' = FALSE
            /\ Silent
            /\ UNCHANGED <<sessions, heap, thr>>
       ELSE LET q == heap[o].current_question IN
                    /\ Update(sessions,
                      [heap EXCEPT ![o] = add_answer(@, Question(q), text, POINTS[text])],
                      [thr EXCEPT ![t] = [IdleThread EXCEPT
                          !.pc = "risk", !.chat = c, !.session = o, !.question = q,
                          !.answer = text, !.pre = Entry(sessions, heap, c)]])
            /\ Silent
            /\ UNCHANGED running

\* The cancellation message is delivered (or the send raises), then
\* sessions.pop(chat_id, None).
cancel_delivered(t) ==
    /\ running
    /\ thr[t].pc = "cancel"
    /\ \E ok \in Outcomes :
          /\ Deliver(Msg(thr[t].chat, "cancelled", 0, ""), ok)
          /\ Update(IF ok THEN PopSession(sessions, thr[t].chat) ELSE sessions,
                    heap, Finish(t))
    /\ UNCHANGED <<events, running>>

\* send_risk_explanation: the explanation is delivered (or the send raises),
\* then time.sleep(1).
send_risk_explanation(t) ==
    /\ running
    /\ thr[t].pc = "risk"
    /\ \E ok \in Outcomes :
          /\ Deliver(Msg(thr[t].chat, "risk", thr[t].question, thr[t].answer), ok)
          /\ Update(sessions, heap,
                    IF ok THEN [thr EXCEPT ![t].pc = "sleep"] ELSE Finish(t))
    /\ UNCHANGED <<events, running>>

\* handle_answer after the sleep: session.current_question += 1, then
\* send_final_report(chat_id) up to its first send, or ask_question(chat_id).
\* send_final_report reads the store again: its `session` is the stored object.
handle_answer_resumes(t) ==
    /\ running
    /\ thr[t].pc = "sleep"
    /\ LET c == thr[t].chat
           o == thr[t].session
           h == [heap EXCEPT ![o] = NextQuestion(@)]
       IN IF is_completed(h[o])
          THEN IF sessions[c] = NoObj
               THEN \* send_final_report returns at once; the pop finds nothing
                    /\ Update(PopSession(sessions, c), h, Finish(t))
                    /\ Silent
                    /\ UNCHANGED running
               ELSE IF ReportRaises(h[sessions[c]])
               THEN /\ Update(sessions, h, Finish(t))
                    /\ running' = FALSE
                    /\ Silent
               ELSE /\ Update(sessions, h,
                              [thr EXCEPT ![t] = [@ EXCEPT
                                  !.pc = "report", !.session = sessions[c],
                                  !.report = BuildReport(h[sessions[c]])]])
                    /\ Silent
                    /\ UNCHANGED running
          ELSE /\ Update(sessions, h, Finish(t))
               /\ ask_question(c, sessions, h)
               /\ UNCHANGED running
    /\ UNCHANGED events

\* Mutant: the reporting session is popped before the statistics are built.
report_delivered_after_pop(t) ==
    /\ running
    /\ thr[t].pc = "report"
    /\ \E ok \in Outcomes :
          /\ Deliver(Msg(thr[t].chat, "report", thr[t].report.score, ""), ok)
          /\ LET st == IF ok THEN PopSession(sessions, thr[t].chat) ELSE sessions IN
             Update(st, heap,
                    IF ok
                    THEN [thr EXCEPT ![t] = [@ EXCEPT
                            !.pc = "stats",
                            !.stats = BuildStats(ScoreOf(st, heap),
                                                 thr[t].report.score)]]
                    ELSE Finish(t))
    /\ UNCHANGED <<events, running>>

\* send_final_report: the report is delivered (or the send raises), then the
\* statistics text is built from the store as it is now.
report_delivered(t) ==
    /\ running
    /\ thr[t].pc = "report"
    /\ \E ok \in Outcomes :
          /\ Deliver(Msg(thr[t].chat, "report", thr[t].report.score, ""), ok)
          /\ Update(sessions, heap,
                    IF ok
                    THEN [thr EXCEPT ![t] = [@ EXCEPT
                            !.pc = "stats",
                            !.stats = BuildStats(ScoreOf(sessions, heap),
                                                 thr[t].report.score)]]
                    ELSE Finish(t))
    /\ UNCHANGED <<events, running>>

\* The statistics message is delivered (or the send raises); back in
\* handle_answer, sessions.pop(chat_id, None).
stats_delivered(t) ==
    /\ running
    /\ thr[t].pc = "stats"
    /\ \E ok \in Outcomes :
          /\ Deliver(Msg(thr[t].chat, "stats", 0, ""), ok)
          /\ Update(IF ok THEN PopSession(sessions, thr[t].chat) ELSE sessions,
                    heap, Finish(t))
    /\ UNCHANGED <<events, running>>

ADMIN_IDS == {}

\* @bot.message_handler(commands=['stats'])
handle_stats(t, c) ==
    /\ Takes(t)
    /\ \E ok \in Outcomes :
          Deliver(Msg(c, IF c \in ADMIN_IDS THEN "botstats" ELSE "denied", 0, ""), ok)
    /\ UNCHANGED <<sessions, heap, thr, running>>

\* @bot.message_handler(commands=['version'])
handle_version(t, c) ==
    /\ Takes(t)
    /\ \E ok \in Outcomes : Deliver(Msg(c, "version", 0, ""), ok)
    /\ UNCHANGED <<sessions, heap, thr, running>>

\* Mutant: any other text drops the chat's session.
handle_unknown_drops(t, c) ==
    /\ Takes(t)
    /\ \E ok \in Outcomes : Deliver(Msg(c, "unknown", 0, ""), ok)
    /\ Update(PopSession(sessions, c), heap, thr)
    /\ UNCHANGED running

\* @bot.message_handler(func=lambda m: True): one of four fixed responses,
\* drawn by random.choice; the message records that it is one of them.
handle_unknown(t, c) ==
    /\ Takes(t)
    /\ \E ok \in Outcomes : Deliver(Msg(c, "unknown", 0, ""), ok)
    /\ UNCHANGED <<sessions, heap, thr, running>>

\* ------------------------------------------------------------ specification

Next ==
    \E t \in Threads :
        \/ \E c \in Chats : handle_start(t, c)
        \/ \E c \in Chats : start_check_callback(t, c)
        \/ \E c \in Chats, text \in Answers \cup {"Otmena"} : handle_answer(t, c, text)
        \/ \E c \in Chats : handle_stats(t, c)
        \/ \E c \in Chats : handle_version(t, c)
        \/ \E c \in Chats : handle_unknown(t, c)
        \/ callback_answered(t)
        \/ cancel_delivered(t)
        \/ send_risk_explanation(t)
        \/ handle_answer_resumes(t)
        \/ report_delivered(t)
        \/ stats_delivered(t)

Spec == Init /\ [][Next]_vars

\* ------------------------------------------- the lookups on a given score

\* How far below 0 and above the maximum 2 * N the given scores go.
MaxOff == 2

Scores == (0 - MaxOff)..(2 * N + MaxOff)

\* Any store of sessions, as far as the lookups read it: they read nothing of a
\* session but its score.
CalcInit ==
    /\ \E present \in SUBSET Chats :
       \E sc \in [present -> Scores] :
          LET obj == [c \in Chats |->
                        IF c \in present
                        THEN Cardinality({b \in present : b <= c})
                        ELSE NoObj]
          IN /\ sessions = obj
             /\ heap = [o \in Objs |->
                          IF \E c \in present : obj[c] = o
                          THEN [UserSession EXCEPT
                                   !.score = sc[CHOOSE c \in present : obj[c] = o]]
                          ELSE UserSession]
    /\ thr = [t \in Threads |-> IdleThread]
    /\ out = NoMsg
    /\ events = 0
    /\ fails = 0
    /\ running = TRUE

\* send_final_report: level = Config.LEVELS.get(score, Config.LEVELS[0])
level_of_score(t, score) ==
    /\ thr[t].report = NoReport
    /\ thr' = [thr EXCEPT ![t] = [@ EXCEPT
                 !.report = [NoReport EXCEPT !.score = score,
                                             !.level = LevelOf(score)]]]
    /\ UNCHANGED <<sessions, heap, out, events, fails, running>>

\* send_final_report: calculate_average_score() and calculate_percentile(score)
statistics_of_score(t) ==
    /\ thr[t].report # NoReport
    /\ thr[t].stats = NoStats
    /\ thr' = [thr EXCEPT ![t] = [@ EXCEPT
                 !.stats = BuildStats(ScoreOf(sessions, heap), thr[t].report.score)]]
    /\ UNCHANGED <<sessions, heap, out, events, fails, running>>

CalcNext ==
    \/ \E score \in Scores : level_of_score(1, score)
    \/ statistics_of_score(1)

Calc == CalcInit /\ [][CalcNext]_vars

\* ------------------------------------------------------------------ claims

\* The chats no handler is working on.
Quiet(c) == \A t \in Threads : thr[t].chat # c

\* C1: every stored session whose chat has no handler in progress has a score
\* equal to the sum of the points of its answers and a current_question equal to
\* the number of its answers, also after events whose send failed.
C1_ScoreAndIndexMatchAnswers ==
    \A c \in Stored(sessions) :
        Quiet(c) =>
            LET s == heap[sessions[c]] IN
            /\ s.score = SumPoints(s.answers)
            /\ s.current_question = Len(s.answers)

\* C2: when the handler of a chat's N-th canonical answer ends, it has delivered
\* the final report (once) and the store no longer holds the chat.
C2_OneReportThenRemoved ==
    [][\A t \in Threads :
          (/\ thr[t].pc \in {"risk", "sleep", "report", "stats"}
           /\ thr[t].question = N - 1
           /\ thr'[t].pc = "idle")
          => (/\ thr[t].pc = "stats"
              /\ sessions'[thr[t].chat] = NoObj)]_vars

\* C3: two answers of one chat are never in flight against the same question of
\* the same session: the second is taken only after the first has advanced
\* current_question.
C3_AnswersOfAChatOneAtATime ==
    \A t, u \in Threads :
        (/\ t # u
         /\ thr[t].pc \in {"risk", "sleep"}
         /\ thr[u].pc \in {"risk", "sleep"}
         /\ thr[t].session = thr[u].session)
        => thr[t].question # thr[u].question

\* C4: when a send fails in the handler of an answer or cancel event (the
\* explanation, the next question, the report, the statistics or the
\* cancellation message), the chat's entry of the store is as it was when the
\* handler began.
C4_FailedSendLeavesSession ==
    [][\A t \in Threads :
          (/\ thr[t].pc \in {"cancel", "risk", "sleep", "report", "stats"}
           /\ thr'[t].pc = "idle"
           /\ fails' = fails + 1)
          => Entry(sessions', heap', thr[t].chat) = thr[t].pre]_vars

\* C5, as claimed: when the handler of a cancel event for a chat with a session
\* ends, the chat has no session and the handler has delivered no report.
C5_CancelRemovesSession ==
    [][\A t \in Threads :
          (thr[t].pc = "cancel" /\ thr'[t].pc = "idle")
          => (/\ sessions'[thr[t].chat] = NoObj
              /\ out'.kind # "report")]_vars

\* C5, amended: the handler of a cancel event for a chat with a session delivers
\* no report; when its cancellation message is delivered the chat has no session
\* afterwards, and when that send fails the store is left as it is.
C5_DeliveredCancelRemovesSession ==
    [][\A t \in Threads :
          (thr[t].pc = "cancel" /\ thr'[t].pc = "idle")
          => (/\ out'.kind # "report"
              /\ IF fails' = fails
                 THEN /\ out' = Msg(thr[t].chat, "cancelled", 0, "")
                      /\ sessions'[thr[t].chat] = NoObj
                 ELSE /\ sessions' = sessions
                      /\ heap' = heap)]_vars

\* A cancellation has just been delivered and the chat is gone from the store.
C5_Witness ==
    /\ out.kind = "cancelled"
    /\ sessions[out.chat] = NoObj

\* C6: a start leaves the chat with a session without answers, score 0 and
\* question 0; and a report delivered to a chat that has a session is the report
\* of that session, never of one that a start has replaced.
C6_StartDiscardsEarlierAnswers ==
    [][/\ \A t \in Threads, c \in Chats :
             handle_start(t, c)
             => Entry(sessions', heap', c) = [present |-> TRUE, s |-> UserSession]
       /\ \A t \in Threads :
             (/\ thr[t].pc = "report"
              /\ thr'[t].pc = "stats"
              /\ sessions[thr[t].chat] # NoObj)
             => thr[t].session = sessions[thr[t].chat]]_vars

\* The steps a worker takes for an event of chat c.
ActsFor(t, c) ==
    \/ handle_start(t, c)
    \/ start_check_callback(t, c)
    \/ \E text \in Answers \cup {"Otmena"} : handle_answer(t, c, text)
    \/ handle_stats(t, c)
    \/ handle_version(t, c)
    \/ handle_unknown(t, c)
    \/ /\ thr[t].chat = c
       /\ \/ callback_answered(t)
          \/ cancel_delivered(t)
          \/ send_risk_explanation(t)
          \/ handle_answer_resumes(t)
          \/ report_delivered(t)
          \/ stats_delivered(t)

\* C7: a step taken for an event of chat a leaves the store entry of every other
\* chat b as it was (its presence, answers, score and current_question): a step
\* that changes the entry of b is a step of no other chat.
C7_SessionsDoNotInterfere ==
    [][\A b \in Chats :
          Entry(sessions', heap', b) # Entry(sessions, heap, b)
          => \A t \in Threads, a \in Chats \ {b} : ~ActsFor(t, a)]_vars

\* A start or a cancellation of one chat has just been answered while another
\* chat holds a session with recorded answers.
C7_Witness ==
    \E b \in Chats :
        /\ out.kind \in {"welcome", "cancelled"}
        /\ out.chat # b
        /\ sessions[b] # NoObj
        /\ heap[sessions[b]].answers # <<>>

C9_ReportFollowsFinalExplanation ==
    [][\A t \in Threads :
          (/\ thr[t].pc \in {"sleep", "report"}
           /\ thr[t].question = N - 1
           /\ out'.chat = thr[t].chat)
          => (out'.kind = "report" /\ thr'[t].pc = "stats")]_vars

\* The weak points the claim describes: every answer with fewer than 2 points,
\* paired with the question it was recorded for.
RECURSIVE WeakById(_)
WeakById(answers) ==
    IF answers = <<>> THEN <<>>
    ELSE (IF answers[1].points < 2
          THEN <<[question |-> answers[1].question_id, ans |-> answers[1]]>>
          ELSE <<>>) \o WeakById(Tail(answers))

QIndex(id) == CHOOSE i \in 1..N : QUESTIONS[i] = id

\* C10: a report built from a session with N answers shows the sum of their
\* points, a tally that sums to N, and as weak points the answers below 2 points,
\* each with the question it answered, in question order.
C10_ReportOfNAnswers ==
    [][\A t \in Threads :
          (thr[t].pc = "sleep" /\ thr'[t].pc = "report")
          => LET a == heap'[thr'[t].session].answers
                 r == thr'[t].report
             IN Len(a) = N
                => /\ r.score = SumPoints(a)
                   /\ r.answers_count["Vse"] + r.answers_count["MoiKontakty"]
                        + r.answers_count["Nikto"] = N
                   /\ r.weak_points = WeakById(a)
                   /\ \A i, j \in 1..Len(r.weak_points) :
                         i < j => QIndex(r.weak_points[i].question)
                                     < QIndex(r.weak_points[j].question)]_vars

\* The message m is the whole outcome of a step that makes one send: it is
\* delivered, or the send raises and nothing is delivered.
OnlySends(m) ==
    \/ out' = m /\ fails' = fails
    \/ out' = NoMsg /\ fails' = fails + 1

\* C11: an answer, a cancel or a begin event for a chat without a session sends
\* the restart prompt to that chat and does nothing else: the store, the sessions
\* and the workers are as before, no session is created and no answer recorded.
C11_NoSessionRestartPrompt ==
    [][\A t \in Threads, c \in Chats :
          sessions[c] = NoObj
          => /\ (\E text \in Answers \cup {"Otmena"} : handle_answer(t, c, text))
                => /\ OnlySends(Msg(c, "restart_answer", 0, ""))
                   /\ UNCHANGED <<sessions, heap, thr>>
             /\ start_check_callback(t, c)
                => /\ OnlySends(Msg(c, "restart_begin", 0, ""))
                   /\ UNCHANGED <<sessions, heap, thr>>]_vars

\* A restart prompt has just been delivered to a chat that has no session, while
\* the other chat keeps its session.
C11_Witness ==
    /\ out.kind \in {"restart_answer", "restart_begin"}
    /\ sessions[out.chat] = NoObj
    /\ Stored(sessions) # {}

\* C12: the stats command, the version command and any other text are answered
\* with their reply and leave the whole store, and every session in it, unchanged.
C12_InformationalEventsLeaveStore ==
    [][\A t \in Threads, c \in Chats :
          /\ handle_stats(t, c)
             => /\ OnlySends(Msg(c, "denied", 0, ""))
                /\ UNCHANGED <<sessions, heap, thr>>
          /\ handle_version(t, c)
             => /\ OnlySends(Msg(c, "version", 0, ""))
                /\ UNCHANGED <<sessions, heap, thr>>
          /\ handle_unknown(t, c)
             => /\ OnlySends(Msg(c, "unknown", 0, ""))
                /\ UNCHANGED <<sessions, heap, thr>>]_vars

\* An informational reply has just been delivered to a chat whose session holds
\* recorded answers.
C12_Witness ==
    /\ out.kind \in {"denied", "version", "unknown"}
    /\ sessions[out.chat] # NoObj
    /\ heap[sessions[out.chat]].answers # <<>>

\* C13: no handler raises: every catalog lookup by index finds its index inside
\* the catalog, so no IndexError ever ends the polling, and no stored session that
\* no handler is working on stands at question N waiting for another answer.
C13_NoLookupRaises ==
    /\ running
    /\ \A c \in Stored(sessions) :
          Quiet(c) => InCatalog(heap[sessions[c]].current_question)

\* C14: the level looked up for a score in 0..10 is the table's entry of that
\* score, and for every other score (negative or above 10) it is the entry of 0.
C14_LevelOfScore ==
    \A t \in Threads :
        thr[t].report.level # ""
        => LET score == thr[t].report.score IN
           thr[t].report.level =
              IF 0 <= score /\ score <= 10 THEN LEVELS[score] ELSE LEVELS[0]

\* The level of a score above the maximum has been looked up.
C14_Witness ==
    \E t \in Threads :
        /\ thr[t].report.score > 2 * N
        /\ thr[t].report.level = LEVELS[0]

\* C15: over the stored sessions, the percentile of a score is 100 times the
\* number of sessions with a strictly lower score divided by the number of
\* sessions, and 100 when the store is empty; the mean is 0 when the store is
\* empty (and the sum of the scores divided by their number otherwise).
C15_PercentileAndMean ==
    \A t \in Threads :
        thr[t].stats # NoStats
        => LET score == thr[t].report.score
               n == Cardinality(Stored(sessions))
               lower == Cardinality({c \in Stored(sessions) :
                                        heap[sessions[c]].score < score})
               pct == thr[t].stats.percentile
               avg == thr[t].stats.average
           IN /\ pct.den > 0
              /\ avg.den > 0
              /\ IF n = 0
                 THEN /\ pct.num = 100 * pct.den
                      /\ avg.num = 0
                 ELSE /\ pct.num * n = 100 * lower * pct.den
                      /\ avg.num * n
                           = SumScores(ScoreOf(sessions, heap), Stored(sessions)) * avg.den

\* The statistics of a score have been computed over two sessions, one of them
\* strictly lower and one with the same score.
C15_Witness ==
    \E t \in Threads :
        /\ thr[t].stats # NoStats
        /\ Cardinality(Stored(sessions)) = 2
        /\ \E c \in Stored(sessions) : heap[sessions[c]].score < thr[t].report.score
        /\ \E c \in Stored(sessions) : heap[sessions[c]].score = thr[t].report.score

\* C16: answers are append-only.  Across a step that keeps the chat's session
\* object in the store, the recorded answers before the step are a prefix of the
\* recorded answers after it; at most one record is added, and only by a step
\* that accepts a canonical answer of that chat.
C16_AnswersAppendOnly ==
    [][\A c \in Chats :
          (sessions[c] # NoObj /\ sessions'[c] = sessions[c])
          => LET a == heap[sessions[c]].answers
                 b == heap'[sessions[c]].answers
             IN /\ Len(a) <= Len(b)
                /\ SubSeq(b, 1, Len(a)) = a
                /\ Len(b) <= Len(a) + 1
                /\ Len(b) = Len(a) + 1
                   => \E t \in Threads, text \in Answers : handle_answer(t, c, text)]_vars

\* An answer has just been recorded behind two or more earlier ones.
C16_Witness ==
    \E t \in Threads :
        /\ thr[t].pc = "risk"
        /\ sessions[thr[t].chat] = thr[t].session
        /\ Len(heap[thr[t].session].answers) = Len(thr[t].pre.s.answers) + 1
        /\ Len(thr[t].pre.s.answers) >= 2

\* C17: in every state the k-th recorded answer of a stored session carries the
\* id of the k-th question of the catalog.
C17_AnswersFollowCatalog ==
    \A c \in Stored(sessions) :
        LET a == heap[sessions[c]].answers IN
        \A k \in 1..Len(a) :
            /\ k <= N
            /\ a[k].question_id = QUESTIONS[k]

\* C18: no answer is recorded between a start and the first question prompt.  In
\* the state a start leaves behind (its welcome is the message just delivered and
\* the chat's session is the new one) no prompt has been sent within the session,
\* so the next step records no answer in it.
C18_NoAnswerBeforeFirstPrompt ==
    [][\A c \in Chats :
          (/\ out = Msg(c, "welcome", 0, "")
           /\ sessions[c] # NoObj
           /\ sessions'[c] = sessions[c])
          => heap'[sessions[c]].answers = heap[sessions[c]].answers]_vars

\* C19: in every state the score of every stored session is in 0..2*N and the
\* session has at most N recorded answers.
C19_ScoreAndAnswersBounded ==
    \A c \in Stored(sessions) :
        LET s == heap[sessions[c]] IN
        /\ s.score \in 0..(2 * N)
        /\ Len(s.answers) <= N

\* C20: each accepted canonical answer moves the session on by exactly one
\* question: when the handler of an answer accepted at question i leaves its
\* explanation (to the next prompt, to the report, or by ending), the session
\* stands at question i + 1, so that N answers complete it.
C20_AnswerAdvancesByOne ==
    [][\A t \in Threads :
          (/\ thr[t].pc \in {"risk", "sleep"}
           /\ thr'[t].pc \notin {"risk", "sleep"})
          => heap'[thr[t].session].current_question = thr[t].question + 1]_vars

====
